---------------------------- MODULE Spec2Model ----------------------------
(***************************************************************************)
(* A model of src/src/index.ts: the NanoNeuron linear unit, its forward    *)
(* and backward passes, the trainModel loop and generateDataSets.          *)
(*                                                                         *)
(* Numbers.  A JavaScript number is modelled as a pair <<n, d>>:           *)
(*   d > 0   the finite value n/d, in lowest terms, with |n/d| <= MaxFinite*)
(*   <<1,0>>   +Infinity      <<-1,0>>   -Infinity      <<0,0>>   NaN      *)
(* Every arithmetic operation is exact while its result lies within        *)
(* +-MaxFinite and overflows to +-Infinity beyond it, as an IEEE-754       *)
(* operation does beyond Number.MAX_VALUE; operations on Infinity and NaN  *)
(* follow IEEE-754 (Infinity - Infinity, 0 * Infinity and 0/0 are NaN, any *)
(* comparison with NaN is false).  Rounding of finite results, underflow   *)
(* and the sign of zero are not modelled.                                  *)
(***************************************************************************)
EXTENDS Integers, Sequences, FiniteSets, TLC

\* ------------------------------------------------------------ bounds
\* Stand-in for Number.MAX_VALUE: the largest finite magnitude.
MaxFinite == 250
\* Largest epoch count passed to trainModel.
MaxEpochs == 3
\* Largest number of samples in a training set.
MaxLen == 2

\* ------------------------------------------------------------ numbers
PosInf == <<1, 0>>
NegInf == <<-1, 0>>
NaN == <<0, 0>>

Abs(n) == IF n < 0 THEN -n ELSE n

RECURSIVE Gcd(_, _)
Gcd(a, b) == IF b = 0 THEN a ELSE Gcd(b, a % b)

IsNaN(a) == a = NaN
IsInf(a) == a = PosInf \/ a = NegInf
IsFinite(a) == a[2] > 0
Sign(a) == IF a[1] > 0 THEN 1 ELSE IF a[1] < 0 THEN -1 ELSE 0
Signed(s) == IF s > 0 THEN PosInf ELSE IF s < 0 THEN NegInf ELSE NaN

\* The number n/d (d > 0) as a result of an operation: overflow, else lowest terms.
Normalize(n, d) ==
  IF n > MaxFinite * d THEN PosInf
  ELSE IF -n > MaxFinite * d THEN NegInf
  ELSE LET g == Gcd(Abs(n), d) IN <<n \div g, d \div g>>

\* An integer literal, and a literal fraction.
Num(n) == <<n, 1>>
Frac(n, d) == LET g == Gcd(Abs(n), d) IN <<n \div g, d \div g>>

Neg(a) == <<-a[1], a[2]>>

\* a + b
Add(a, b) ==
  IF IsNaN(a) \/ IsNaN(b) THEN NaN
  ELSE IF IsInf(a) THEN (IF IsInf(b) /\ b # a THEN NaN ELSE a)
  ELSE IF IsInf(b) THEN b
  ELSE LET g == Gcd(a[2], b[2])
           l == (a[2] \div g) * b[2]
       IN Normalize(a[1] * (l \div a[2]) + b[1] * (l \div b[2]), l)

\* a - b
Sub(a, b) == Add(a, Neg(b))

\* a * b
Mul(a, b) ==
  IF IsNaN(a) \/ IsNaN(b) THEN NaN
  ELSE IF IsInf(a) \/ IsInf(b) THEN Signed(Sign(a) * Sign(b))
  ELSE IF a[1] = 0 \/ b[1] = 0 THEN Num(0)
  ELSE LET g1 == Gcd(Abs(a[1]), b[2])
           g2 == Gcd(Abs(b[1]), a[2])
           an == a[1] \div g1
           bn == b[1] \div g2
           d  == (a[2] \div g2) * (b[2] \div g1)
       IN \* |an * bn| > MaxFinite * d, decided without forming the product
          IF Abs(an) > (MaxFinite * d) \div Abs(bn)
          THEN Signed(Sign(a) * Sign(b))
          ELSE Normalize(an * bn, d)

\* a / b
Div(a, b) ==
  IF IsNaN(a) \/ IsNaN(b) THEN NaN
  ELSE IF IsInf(b) THEN (IF IsInf(a) THEN NaN ELSE Num(0))
  ELSE IF b[1] = 0 THEN Signed(Sign(a))
  ELSE IF IsInf(a) THEN Signed(Sign(a) * Sign(b))
  ELSE Mul(a, <<Sign(b) * b[2], Abs(b[1])>>)

\* a < b
Less(a, b) ==
  IF IsNaN(a) \/ IsNaN(b) THEN FALSE
  ELSE IF IsInf(a) \/ IsInf(b) THEN
         (a = NegInf /\ b # NegInf) \/ (b = PosInf /\ a # PosInf)
  ELSE LET g == Gcd(a[2], b[2])
           l == (a[2] \div g) * b[2]
       IN a[1] * (l \div a[2]) < b[1] * (l \div b[2])

\* a <= b, a > b, a >= b
Leq(a, b) == Less(a, b) \/ (~IsNaN(a) /\ a = b)
Greater(a, b) == Less(b, a)
Geq(a, b) == Leq(b, a)


\* ------------------------------------------------------------ program constants
\* const W = 1.8; const B = 32;
W == Frac(9, 5)
B == Num(32)
\* the loop bound of generateDataSets, and the first test input 0.5
DataSetSize == 100
\* Mutant: the second loop starts on the training grid.
TestOffsetZero == Num(0)
TestOffset == Frac(1, 2)

\* ------------------------------------------------------------ inputs
\* Initial weights and biases (the driver draws them from Math.random()).
WVals == {Num(-1), Num(1)}
BVals == {Num(-1), Num(0)}
\* Learning rates.
Alphas == {Frac(1, 2), Num(1), Num(2)}
\* Sample inputs and targets.
XVals == {Num(-1), Num(0), Num(4)}
YVals == {Num(0), Num(3)}
\* Predictions handed to backwardPropagation when it is exercised on its own.
PVals == {NegInf, Num(-2), Num(1), Num(5)}

Undefined == "undefined"

VARIABLES
  model,          \* the NanoNeuron: [w, b]
  randomW,        \* the constructor's arguments
  randomB,
  epochs,         \* trainModel's parameters
  alpha,
  xTrain,
  yTrain,
  epoch,          \* trainModel's loop counter
  costHistory,
  averageCost,    \* the locals of one iteration of trainModel
  predictions,
  averageDeltaW,
  averageDeltaB,
  x,              \* generateDataSets' loop variable
  xTest,
  yTest,
  pc

vars == <<model, randomW, randomB, epochs, alpha, xTrain, yTrain, epoch,
          costHistory, averageCost, predictions, averageDeltaW, averageDeltaB,
          x, xTest, yTest, pc>>

trainVars == <<model, randomW, randomB, epochs, alpha, epoch, costHistory,
               averageCost, predictions, averageDeltaW, averageDeltaB>>
dataVars == <<x, xTest, yTest>>

\* ------------------------------------------------------------ pure functions
celsiusToFahrenheit(c) == Add(Mul(c, W), B)

\* NanoNeuron.predict
predict(m, xi) == Add(Mul(xi, m.w), m.b)

\* Mutant: the error is not squared.
predictionCostNoSquare(y, yPredicted) == Div(Sub(y, yPredicted), Num(2))

\* (y - yPredicted) ** 2 / 2
predictionCost(y, yPredicted) ==
  LET d == Sub(y, yPredicted) IN Div(Mul(d, d), Num(2))

\* The loop of forwardPropagation from index i (1-based here) on.
RECURSIVE forwardLoop(_, _, _, _, _, _)
forwardLoop(m, xs, ys, i, cost, preds) ==
  IF i <= Len(xs)
  THEN LET yPredicted == predict(m, xs[i])
       IN forwardLoop(m, xs, ys, i + 1,
                      Add(cost, predictionCost(ys[i], yPredicted)),
                      Append(preds, yPredicted))
  ELSE [predictions |-> preds, averageCost |-> Div(cost, Num(Len(xs)))]

forwardPropagation(m, xs, ys) == forwardLoop(m, xs, ys, 1, Num(0), <<>>)

\* The loop of backwardPropagation from index i (1-based here) on.
RECURSIVE backwardLoop(_, _, _, _, _, _)
backwardLoop(preds, xs, ys, i, deltaW, deltaB) ==
  IF i <= Len(xs)
  THEN backwardLoop(preds, xs, ys, i + 1,
                    Add(deltaW, Mul(Sub(ys[i], preds[i]), xs[i])),
                    Add(deltaB, Sub(ys[i], preds[i])))
  ELSE [averageDeltaB |-> Div(deltaB, Num(Len(xs))),
        averageDeltaW |-> Div(deltaW, Num(Len(xs)))]

\* Mutant: targets and predictions change places.
backwardPropagationSwapped(preds, xs, ys) == backwardLoop(ys, xs, preds, 1, Num(0), Num(0))

backwardPropagation(preds, xs, ys) == backwardLoop(preds, xs, ys, 1, Num(0), Num(0))

\* Mutant: the learning rate is left out of the step.
updateModelNoAlpha(m, dW, dB, a) == [w |-> Add(m.w, dW), b |-> Add(m.b, dB)]

\* Mutant: the scaled deltas are subtracted.
updateModelDescent(m, dW, dB, a) ==
  [w |-> Sub(m.w, Mul(dW, a)), b |-> Sub(m.b, Mul(dB, a))]

\* model.w += averageDeltaW * alpha; model.b += averageDeltaB * alpha
updateModel(m, dW, dB, a) ==
  [w |-> Add(m.w, Mul(dW, a)), b |-> Add(m.b, Mul(dB, a))]

\* ------------------------------------------------------------ trainModel
\* new NanoNeuron(randomW, randomB), then trainModel(model, epochs, alpha, xTrain, yTrain)
\* entered: costHistory = [], epoch = 0.
Init ==
  /\ randomW \in WVals
  /\ randomB \in BVals
  /\ model = [w |-> randomW, b |-> randomB]
  /\ epochs \in 0 .. MaxEpochs
  /\ alpha \in Alphas
  /\ \E n \in 1 .. MaxLen :
       /\ xTrain \in [1 .. n -> XVals]
       /\ yTrain \in [1 .. n -> YVals]
  /\ epoch = 0
  /\ costHistory = <<>>
  /\ averageCost = Undefined
  /\ predictions = Undefined
  /\ averageDeltaW = Undefined
  /\ averageDeltaB = Undefined
  /\ x = Undefined
  /\ xTest = <<>>
  /\ yTest = <<>>
  /\ pc = "test"

\* Mutant: the loop test lets one more iteration through.
LoopTestInclusive ==
  /\ pc = "test"
  /\ pc' = IF epoch <= epochs THEN "forward" ELSE "done"
  /\ UNCHANGED <<trainVars, xTrain, yTrain, dataVars>>

\* for (...; epoch < epochs; ...)
LoopTest ==
  /\ pc = "test"
  /\ pc' = IF epoch < epochs THEN "forward" ELSE "done"
  /\ UNCHANGED <<trainVars, xTrain, yTrain, dataVars>>

\* Mutant: the forward pass is run on the model as constructed, not as trained so far.
ForwardStale ==
  /\ pc = "forward"
  /\ LET r == forwardPropagation([w |-> randomW, b |-> randomB], xTrain, yTrain)
     IN /\ averageCost' = r.averageCost
        /\ predictions' = r.predictions
  /\ pc' = "push"
  /\ UNCHANGED <<model, randomW, randomB, epochs, alpha, xTrain, yTrain, epoch,
                 costHistory, averageDeltaW, averageDeltaB, dataVars>>

\* Mutant: the forward pass stores its last prediction in the model's bias.
ForwardWrites ==
  /\ pc = "forward"
  /\ LET r == forwardPropagation(model, xTrain, yTrain)
     IN /\ averageCost' = r.averageCost
        /\ predictions' = r.predictions
        /\ model' = [model EXCEPT !.b = r.predictions[Len(xTrain)]]
  /\ pc' = "push"
  /\ UNCHANGED <<randomW, randomB, epochs, alpha, xTrain, yTrain, epoch,
                 costHistory, averageDeltaW, averageDeltaB, dataVars>>

\* const { averageCost, predictions } = forwardPropagation(model, xTrain, yTrain)
Forward ==
  /\ pc = "forward"
  /\ LET r == forwardPropagation(model, xTrain, yTrain)
     IN /\ averageCost' = r.averageCost
        /\ predictions' = r.predictions
  /\ pc' = "push"
  /\ UNCHANGED <<model, randomW, randomB, epochs, alpha, xTrain, yTrain, epoch,
                 costHistory, averageDeltaW, averageDeltaB, dataVars>>

\* Mutant: the cost is assigned to the history instead of pushed onto it.
PushOverwrite ==
  /\ pc = "push"
  /\ costHistory' = <<averageCost>>
  /\ pc' = "backward"
  /\ UNCHANGED <<model, randomW, randomB, epochs, alpha, xTrain, yTrain, epoch,
                 averageCost, predictions, averageDeltaW, averageDeltaB, dataVars>>

\* costHistory.push(averageCost)
Push ==
  /\ pc = "push"
  /\ costHistory' = Append(costHistory, averageCost)
  /\ pc' = "backward"
  /\ UNCHANGED <<model, randomW, randomB, epochs, alpha, xTrain, yTrain, epoch,
                 averageCost, predictions, averageDeltaW, averageDeltaB, dataVars>>

\* const { averageDeltaB, averageDeltaW } = backwardPropagation(predictions, xTrain, yTrain)
Backward ==
  /\ pc = "backward"
  /\ LET r == backwardPropagation(predictions, xTrain, yTrain)
     IN /\ averageDeltaW' = r.averageDeltaW
        /\ averageDeltaB' = r.averageDeltaB
  /\ pc' = "update"
  /\ UNCHANGED <<model, randomW, randomB, epochs, alpha, xTrain, yTrain, epoch,
                 costHistory, averageCost, predictions, dataVars>>

\* model.w += averageDeltaW * alpha; model.b += averageDeltaB * alpha; epoch += 1
\* (the iteration's locals keep their last values until the next iteration binds them anew)
Update ==
  /\ pc = "update"
  /\ model' = updateModel(model, averageDeltaW, averageDeltaB, alpha)
  /\ epoch' = epoch + 1
  /\ pc' = "test"
  /\ UNCHANGED <<randomW, randomB, epochs, alpha, xTrain, yTrain, costHistory,
                 averageCost, predictions, averageDeltaW, averageDeltaB, dataVars>>

Next == LoopTest \/ Forward \/ Push \/ Backward \/ Update

Spec == Init /\ [][Next]_vars

\* ------------------------------------------------------------ generateDataSets
\* The state in which trainModel is not running.
TrainIdle ==
  /\ randomW = Num(0)
  /\ randomB = Num(0)
  /\ model = [w |-> randomW, b |-> randomB]
  /\ epochs = 0
  /\ alpha = Num(1)
  /\ epoch = 0
  /\ costHistory = <<>>
  /\ averageCost = Undefined
  /\ averageDeltaW = Undefined
  /\ averageDeltaB = Undefined

\* generateDataSets entered: the four arrays empty, let x = 0.
InitData ==
  /\ TrainIdle
  /\ predictions = Undefined
  /\ xTrain = <<>>
  /\ yTrain = <<>>
  /\ xTest = <<>>
  /\ yTest = <<>>
  /\ x = Num(0)
  /\ pc = "genTrain"

\* for (let x = 0; x < 100; x += 1) { xTrain.push(x); yTrain.push(celsiusToFahrenheit(x)) }
\* and, on leaving the loop, let x = 0.5 of the second loop
GenTrain ==
  /\ pc = "genTrain"
  /\ IF Less(x, Num(DataSetSize))
     THEN /\ xTrain' = Append(xTrain, x)
          /\ yTrain' = Append(yTrain, celsiusToFahrenheit(x))
          /\ x' = Add(x, Num(1))
          /\ pc' = pc
     ELSE /\ x' = TestOffset
          /\ pc' = "genTest"
          /\ UNCHANGED <<xTrain, yTrain>>
  /\ UNCHANGED <<trainVars, xTest, yTest>>

\* for (let x = 0.5; x < 100; x += 1) { xTest.push(x); yTest.push(celsiusToFahrenheit(x)) }
\* and, on leaving the loop, return
GenTest ==
  /\ pc = "genTest"
  /\ IF Less(x, Num(DataSetSize))
     THEN /\ xTest' = Append(xTest, x)
          /\ yTest' = Append(yTest, celsiusToFahrenheit(x))
          /\ x' = Add(x, Num(1))
          /\ pc' = pc
     ELSE /\ pc' = "genDone"
          /\ UNCHANGED <<x, xTest, yTest>>
  /\ UNCHANGED <<trainVars, xTrain, yTrain>>

NextData == GenTrain \/ GenTest

DataSpec == InitData /\ [][NextData]_vars

\* ------------------------------------------------------------ backwardPropagation alone
\* backwardPropagation called on any predictions and any sample set of the same length.
InitBackward ==
  /\ TrainIdle
  /\ \E n \in 1 .. MaxLen :
       /\ predictions \in [1 .. n -> PVals]
       /\ xTrain \in [1 .. n -> XVals]
       /\ yTrain \in [1 .. n -> YVals]
  /\ x = Undefined
  /\ xTest = <<>>
  /\ yTest = <<>>
  /\ pc = "backward"

NextBackward == Backward

BackwardSpec == InitBackward /\ [][NextBackward]_vars


\* ------------------------------------------------------------ properties
\* One iteration of trainModel as a function of the parameters: forward pass,
\* backward pass on its predictions, update.
TrainStep(m) ==
  LET f == forwardPropagation(m, xTrain, yTrain)
      g == backwardPropagation(f.predictions, xTrain, yTrain)
  IN updateModel(m, g.averageDeltaW, g.averageDeltaB, alpha)

\* The parameters after 0, 1, ..., k updates, replayed from the constructor's
\* arguments; the parameters after j updates are element j + 1.
RECURSIVE ParamsUpTo(_)
ParamsUpTo(k) ==
  IF k = 0 THEN <<[w |-> randomW, b |-> randomB]>>
  ELSE LET s == ParamsUpTo(k - 1) IN Append(s, TrainStep(s[k]))

ParamsAfter(k) == ParamsUpTo(k)[k + 1]

AllFinite(m) == IsFinite(m.w) /\ IsFinite(m.b)

IsPrefix(s, t) == Len(s) <= Len(t) /\ SubSeq(t, 1, Len(s)) = s

\* The number of steps trainModel still has to take: five per remaining iteration
\* (loop test, forward pass, push, backward pass, update) and the last loop test.
StepsLeft ==
  IF pc = "done" THEN 0
  ELSE 5 * (epochs - epoch) +
       (CASE pc = "test" -> 1
          [] pc = "forward" -> 0
          [] pc = "push" -> -1
          [] pc = "backward" -> -2
          [] pc = "update" -> -3)

\* C1: trainModel terminates after exactly `epochs` iterations (every step brings
\* the return exactly one step closer, from 5 * epochs + 1 steps at the call, and
\* no steps are left exactly when it has returned) and returns a cost history of
\* length `epochs`; the history grows by exactly one entry per iteration (it has
\* `epoch` entries before the push of an iteration and `epoch + 1` after it) and is
\* append-only: a step leaves it alone or adds one entry at its end.
C1_TerminatesWithEpochsEntries ==
  /\ [](pc \in {"test", "forward", "push", "backward", "update", "done"})
  /\ [](StepsLeft >= 0 /\ (StepsLeft = 0 <=> pc = "done"))
  /\ [][StepsLeft' = StepsLeft - 1]_vars
  /\ [](pc = "done" => epoch = epochs /\ Len(costHistory) = epochs)
  /\ [](Len(costHistory) = IF pc \in {"backward", "update"} THEN epoch + 1 ELSE epoch)
  /\ [][/\ IsPrefix(costHistory, costHistory')
        /\ Len(costHistory') <= Len(costHistory) + 1
        /\ (Len(costHistory') = Len(costHistory) + 1 => pc = "push")]_vars

C1_Witness == pc = "done" /\ epochs = MaxEpochs /\ Len(costHistory) = MaxEpochs

\* C2: with epochs = 0 trainModel returns an empty cost history and leaves model.w
\* and model.b as they were constructed.
C2_ZeroEpochsNoEffect ==
  (pc = "done" /\ epochs = 0) =>
    /\ costHistory = <<>>
    /\ model.w = randomW
    /\ model.b = randomB

C2_Witness == pc = "done" /\ epochs = 0

\* C3: an iteration runs forward pass, push, backward pass, update in that order:
\* the k-th entry of the returned history (0-based index k - 1) is the average
\* cost of the parameters after exactly k - 1 updates, the first being the cost of
\* the parameters as constructed, and the model returned holds the parameters after
\* `epochs` updates; within an iteration the cost pushed is the forward pass's, and
\* when the backward pass has run its deltas are those of the predictions of the
\* same iteration's forward pass, taken on the parameters that the update has not
\* yet changed.
C3_OrderWithinIteration ==
  /\ pc = "done" =>
       LET params == ParamsUpTo(epoch)
       IN /\ model = params[epoch + 1]
          /\ Len(costHistory) = epoch
          /\ \A k \in 1 .. Len(costHistory) :
               costHistory[k] = forwardPropagation(params[k], xTrain, yTrain).averageCost
  /\ pc \in {"push", "backward", "update"} =>
       /\ predictions = forwardPropagation(model, xTrain, yTrain).predictions
       /\ averageCost = forwardPropagation(model, xTrain, yTrain).averageCost
  /\ pc = "push" => Len(costHistory) = epoch
  /\ pc \in {"backward", "update"} =>
       /\ Len(costHistory) = epoch + 1
       /\ costHistory[epoch + 1] = averageCost
  /\ pc = "update" =>
       /\ averageDeltaW = backwardPropagation(predictions, xTrain, yTrain).averageDeltaW
       /\ averageDeltaB = backwardPropagation(predictions, xTrain, yTrain).averageDeltaB

C3_Witness ==
  /\ pc = "done"
  /\ epoch = MaxEpochs
  /\ model # ParamsAfter(0)
  /\ model # ParamsAfter(1)
  /\ AllFinite(model)
  /\ costHistory[1] # costHistory[2]
  /\ costHistory[2] # costHistory[3]

\* The error of sample i under the current parameters, and the two sums of C4
\* over the samples 1 .. n.
ErrorAt(i) == Sub(yTrain[i], Add(Mul(xTrain[i], model.w), model.b))

RECURSIVE SumErrorTimesInput(_)
SumErrorTimesInput(n) ==
  IF n = 0 THEN Num(0) ELSE Add(SumErrorTimesInput(n - 1), Mul(ErrorAt(n), xTrain[n]))

RECURSIVE SumError(_)
SumError(n) == IF n = 0 THEN Num(0) ELSE Add(SumError(n - 1), ErrorAt(n))

OneOverM == Div(Num(1), Num(Len(xTrain)))

\* C4: one iteration changes the parameters to w + alpha * averageDeltaW and
\* b + alpha * averageDeltaB, where averageDeltaW = (1/m) * sum of
\* (targets[i] - predictions[i]) * inputs[i], averageDeltaB = (1/m) * sum of
\* (targets[i] - predictions[i]), and predictions[i] = inputs[i] * w + b at the
\* parameters before the update.
C4_UpdateRule ==
  [][pc = "update" =>
       /\ model'.w = Add(model.w, Mul(alpha, Mul(OneOverM, SumErrorTimesInput(Len(xTrain)))))
       /\ model'.b = Add(model.b, Mul(alpha, Mul(OneOverM, SumError(Len(xTrain)))))]_vars

C4_Witness ==
  /\ pc = "test"
  /\ epoch = 2
  /\ IsFinite(model.w) /\ IsFinite(model.b)
  /\ model.w # randomW
  /\ model.b # randomB
  /\ Len(xTrain) = MaxLen



\* C5 as stated: the average cost the forward pass returns is >= 0, and so is
\* every entry of the cost history, after any number of iterations.
C5_CostNeverNegative ==
  /\ pc = "push" => Geq(averageCost, Num(0))
  /\ \A k \in 1 .. Len(costHistory) : Geq(costHistory[k], Num(0))

\* C5 as amended: the average cost the forward pass returns for a model whose w
\* and b are finite is >= 0, and every entry of the returned cost history that was
\* computed while w and b were finite is >= 0 (an entry computed after w or b has
\* become an infinity or NaN may be NaN).
C5_CostNonNegativeWhileFinite ==
  /\ (pc = "push" /\ AllFinite(model)) => Geq(averageCost, Num(0))
  /\ pc = "done" =>
       LET params == ParamsUpTo(Len(costHistory))
       IN \A k \in 1 .. Len(costHistory) :
            AllFinite(params[k]) => Geq(costHistory[k], Num(0))

C5_Witness ==
  /\ pc = "done"
  /\ Len(costHistory) = MaxEpochs
  /\ AllFinite(ParamsAfter(MaxEpochs - 1))
  /\ \A k \in 1 .. Len(costHistory) : Greater(costHistory[k], Num(0))
  /\ costHistory[1] # costHistory[2]

\* Every prediction is below its target.
AllBelow == \A i \in 1 .. Len(predictions) : Less(predictions[i], yTrain[i])

\* C6 as stated: if every prediction is below its target, backwardPropagation
\* returns averageDeltaW > 0 and averageDeltaB > 0.
C6_BothDeltasPositive ==
  (pc = "update" /\ AllBelow) =>
    /\ Greater(averageDeltaW, Num(0))
    /\ Greater(averageDeltaB, Num(0))

\* C6 as amended: if every prediction is below its target, backwardPropagation
\* returns averageDeltaB > 0; it returns averageDeltaW > 0 as well when the
\* predictions are finite, no input is negative and some input is positive.
C6_DeltasPositiveForNonNegativeInputs ==
  (pc = "update" /\ AllBelow) =>
    /\ Greater(averageDeltaB, Num(0))
    /\ ( /\ \A i \in 1 .. Len(predictions) : IsFinite(predictions[i])
         /\ \A i \in 1 .. Len(xTrain) : Geq(xTrain[i], Num(0))
         /\ \E i \in 1 .. Len(xTrain) : Greater(xTrain[i], Num(0)) )
       => Greater(averageDeltaW, Num(0))

C6_Witness ==
  /\ pc = "update"
  /\ AllBelow
  /\ Len(xTrain) = MaxLen
  /\ xTrain[1] = Num(0)
  /\ Greater(xTrain[MaxLen], Num(0))
  /\ IsFinite(averageDeltaW)
  /\ Greater(averageDeltaW, Num(0))
  /\ Greater(averageDeltaB, Num(0))


RECURSIVE SumSquareInput(_)
SumSquareInput(n) ==
  IF n = 0 THEN Num(0) ELSE Add(SumSquareInput(n - 1), Mul(xTrain[n], xTrain[n]))

\* The mean of the squared inputs.
MeanSquareInput == Div(SumSquareInput(Len(xTrain)), Num(Len(xTrain)))

\* alpha * (mean of inputs squared + 1) < 2
StepSmall == Less(Mul(alpha, Add(MeanSquareInput, Num(1))), Num(2))

\* The deltas of the iteration that has just updated the model are not both zero.
DeltasNotBothZero == ~(averageDeltaW = Num(0) /\ averageDeltaB = Num(0))

\* C7 as stated: when the deltas are not both zero, the average cost after the
\* update (the one the next forward pass computes) is lower than the average cost
\* before it, for any positive alpha.
C7_StepLowersCost ==
  [][(pc = "forward" /\ epoch >= 1 /\ DeltasNotBothZero)
       => Less(averageCost', averageCost)]_vars

\* C7 as amended: when the deltas are not both zero, alpha is small enough for the
\* sample set, alpha * (mean of inputs squared + 1) < 2, and no result has
\* overflowed (the parameters and both costs are finite), the average cost after
\* the update is lower than the average cost before it.
C7_SmallStepLowersCost ==
  [][(/\ pc = "forward" /\ epoch >= 1 /\ DeltasNotBothZero
      /\ StepSmall
      /\ AllFinite(model) /\ IsFinite(averageCost) /\ IsFinite(averageCost'))
       => Less(averageCost', averageCost)]_vars

C7_Witness ==
  /\ pc = "push"
  /\ epoch = 2
  /\ StepSmall
  /\ DeltasNotBothZero
  /\ AllFinite(model)
  /\ Len(xTrain) = MaxLen
  /\ xTrain[1] # xTrain[MaxLen]
  /\ Less(averageCost, costHistory[2])
  /\ Less(costHistory[2], costHistory[1])

\* The targets of the two generated sets, in closed form: (9 * x + 160) / 5.
TrainTarget(i) == Frac(9 * (i - 1) + 160, 5)
TestTarget(i) == Frac(9 * (2 * i - 1) + 320, 10)

\* C8: generateDataSets returns training inputs 0, 1, ..., 99 and test inputs
\* 0.5, 1.5, ..., 99.5, in order, 100 of each; no test input is a training input;
\* in both sets inputs and targets have the same length and
\* targets[i] = inputs[i] * 1.8 + 32.
C8_DataSets ==
  pc = "genDone" =>
    /\ Len(xTrain) = 100 /\ Len(yTrain) = Len(xTrain)
    /\ Len(xTest) = 100 /\ Len(yTest) = Len(xTest)
    /\ \A i \in 1 .. 100 :
         /\ xTrain[i] = Num(i - 1)
         /\ xTest[i] = Frac(2 * i - 1, 2)
         /\ yTrain[i] = TrainTarget(i)
         /\ yTest[i] = TestTarget(i)
    /\ \A i, j \in 1 .. 100 : xTest[i] # xTrain[j]

C8_Witness ==
  /\ pc = "genDone"
  /\ Len(xTrain) = DataSetSize
  /\ Len(xTest) = DataSetSize
  /\ yTest[DataSetSize] = Frac(2111, 10)

\* C9: only the update step changes the model: the forward pass (with the
\* predict calls in it) and the backward pass leave model.w, model.b, the inputs
\* and the targets as they are; the model changes in no step but the update, and
\* the update happens once per iteration (it is the step that advances `epoch`).
C9_OnlyUpdateWritesModel ==
  [][/\ pc \in {"forward", "backward"} => UNCHANGED <<model, xTrain, yTrain>>
     /\ model' # model => pc = "update"
     /\ UNCHANGED <<xTrain, yTrain>>
     /\ pc = "update" <=> epoch' = epoch + 1
     /\ epoch' # epoch => epoch' = epoch + 1]_vars

C9_Witness ==
  /\ pc = "update"
  /\ epoch = 1
  /\ model # [w |-> randomW, b |-> randomB]
  /\ predictions # Undefined

=============================================================================
